---- MODULE Spec2Model ----
(***************************************************************************)
(* F-Zero SRAM save codec (src/src/fzero/sram.py) and its command line     *)
(* (src/src/fzero/main.py): the bit packer, the checksum, records,         *)
(* leagues, the save image and the merge of saves.                         *)
(*                                                                         *)
(* Bytes are sequences of integers 0..255.  Python's unbounded int is the  *)
(* TLA+ integer.  An exception a function raises is part of its result.    *)
(***************************************************************************)
EXTENDS Integers, Sequences, FiniteSets, TLC

VARIABLES
    pc,        \* position of the program in the operation being run
    pairs,     \* pack(): the (value, width) pairs given to it
    packed,    \* pack(): the bytes it returned
    fields,    \* unpack(): what it produced from `packed`
    cdata,     \* Checksum: the byte string summed
    csum,      \* Checksum.from_data(cdata)
    cbytes,    \* Checksum.to_data() of csum
    cparsed,   \* Checksum.parse(cbytes)
    ubyte,     \* the unlock byte given to Save._parse_unlocks
    parsed,    \* what Save._parse_unlocks returned for it
    region,    \* the 167 bytes given to League.from_data
    intact,    \* the records of the region before a byte of it was changed
    hit,       \* offset of the changed byte (0 based)
    strict,    \* raise_on_checksum
    league,    \* what League.from_data returned or raised
    image,     \* the bytes given to Save.from_sram / Save.from_data
    save,      \* the Save decoded from `image`
    data,      \* save.to_data()
    save2,     \* Save.from_data(data)
    data2,     \* save2.to_data()
    inputs,    \* merge: <<primary image, secondary images...>> as decoded
    primary    \* merge: the Save that merge mutates and returns

vars == <<pc, pairs, packed, fields, cdata, csum, cbytes, cparsed, ubyte, parsed,
          region, intact, hit, strict, league, image, save, data, save2, data2,
          inputs, primary>>

packVars == <<pairs, packed, fields>>
sumVars == <<cdata, csum, cbytes, cparsed>>
unlockVars == <<ubyte, parsed>>
leagueVars == <<region, intact, hit, strict, league>>
saveVars == <<image, save, data, save2, data2>>
mergeVars == <<inputs, primary>>

\* The value of a variable the running operation has not assigned yet.
None == <<>>

\* ---------------------------------------------------------------- constants
SRAM_SIZE == 2048
SIGNATURE == <<70, 90, 69, 82, 79>>  \* b"FZERO"
LEAGUES == 3
TRACKS == 5
RECORDS == 11
RECORD_SIZE == 3
CHECKSUM_SIZE == 2
UNLOCKS_SIZE == 1
PADDING == <<255>>
LEAGUE_NAMES == <<"Knight", "Queen", "King">>

SIGNATURE_SIZE == Len(SIGNATURE)
LEAGUE_SIZE == RECORD_SIZE * RECORDS * TRACKS + CHECKSUM_SIZE
DATA_SIZE == LEAGUE_SIZE * LEAGUES + 2 * SIGNATURE_SIZE + UNLOCKS_SIZE

\* Car and Mode are enumerations of integers.
Car == 0..3
Mode == 0..1

Byte == 0..255

\* ------------------------------------------------------ Python primitives
\* data[offset : offset + length]; a slice past the end is cut short.
sliced(bytes, offset, length) ==
    LET last == IF offset + length > Len(bytes) THEN Len(bytes) ELSE offset + length
    IN  IF offset >= last THEN <<>> ELSE SubSeq(bytes, offset + 1, last)

\* The consecutive chunks of n items of a list.
chunked(list, n) ==
    [k \in 1..((Len(list) + n - 1) \div n) |-> sliced(list, (k - 1) * n, n)]

\* int.from_bytes(bytes, 'big')
RECURSIVE from_bytes_big(_)
from_bytes_big(bytes) ==
    IF bytes = <<>> THEN 0
    ELSE 256 * from_bytes_big(SubSeq(bytes, 1, Len(bytes) - 1)) + bytes[Len(bytes)]

\* int.to_bytes(length, 'big'), for a num that fits
to_bytes_big(num, length) ==
    [k \in 1..length |-> (num \div (256 ^ (length - k))) % 256]

\* "{:x}".format(num): the hexadecimal digits of num, most significant first
RECURSIVE HexText(_)
HexText(num) ==
    IF num < 16 THEN <<num>> ELSE Append(HexText(num \div 16), num % 16)

\* str(num): the decimal digits of num, most significant first
RECURSIVE DecText(_)
DecText(num) ==
    IF num < 10 THEN <<num>> ELSE Append(DecText(num \div 10), num % 10)

\* int(text, base), for a text whose digits are all below the base
RECURSIVE IntOfText(_, _)
IntOfText(text, base) ==
    IF text = <<>> THEN 0
    ELSE base * IntOfText(SubSeq(text, 1, Len(text) - 1), base) + text[Len(text)]

\* int(text) raises ValueError on a digit a..f
RaisesValueError(text) == \E k \in 1..Len(text) : text[k] > 9

\* --------------------------------------------------------- unpack and pack
\* unpack(data, *bit_lengths), consumed whole by tuple() or list(): the values
\* it yields, or raised = TRUE when a field's hexadecimal text is no decimal
\* number.
RECURSIVE unpack_num(_, _)
unpack_num(num, bit_lengths) ==
    IF bit_lengths = <<>> THEN [raised |-> FALSE, values |-> <<>>]
    ELSE LET bits == Head(bit_lengths)
             text == HexText(num % (2 ^ bits))
         IN  IF RaisesValueError(text) THEN [raised |-> TRUE, values |-> <<>>]
             ELSE LET rest == unpack_num(num \div (2 ^ bits), Tail(bit_lengths))
                  IN  IF rest.raised THEN rest
                      ELSE [raised |-> FALSE,
                            values |-> <<IntOfText(text, 10)>> \o rest.values]

unpack(bytes, bit_lengths) == unpack_num(from_bytes_big(bytes), bit_lengths)

\* The loop of pack(): values[k] = <<value, bits>>.
RECURSIVE pack_loop(_, _, _)
pack_loop(values, num, shift) ==
    IF values = <<>> THEN [num |-> num, shift |-> shift]
    ELSE LET value == Head(values)[1]
             bits == Head(values)[2]
         IN  pack_loop(Tail(values),
                       num + (IntOfText(DecText(value), 16) % (2 ^ bits)) * (2 ^ shift),
                       shift + bits)

\* pack() as a plain binary packer: the value itself is masked to its width.
RECURSIVE pack_binary_loop(_, _, _)
pack_binary_loop(values, num, shift) ==
    IF values = <<>> THEN [num |-> num, shift |-> shift]
    ELSE LET value == Head(values)[1]
             bits == Head(values)[2]
         IN  pack_binary_loop(Tail(values),
                              num + (value % (2 ^ bits)) * (2 ^ shift),
                              shift + bits)

pack_binary(values) ==
    LET end == pack_binary_loop(values, 0, 0)
    IN  to_bytes_big(end.num, (end.shift + 7) \div 8)

pack(values) ==
    LET end == pack_loop(values, 0, 0)
    IN  to_bytes_big(end.num, (end.shift + 7) \div 8)

\* ------------------------------------------------- the bit packer, by itself
MaxFields == 2
PackWidths == {1, 2, 4, 8}
PackValues == {0, 1, 2, 3, 9, 10, 15, 99, 100, 255}

PackInit ==
    /\ pc = "pairs"
    /\ pairs = <<>>
    /\ packed = None
    /\ fields = None
    /\ cdata = None /\ csum = None /\ cbytes = None /\ cparsed = None
    /\ ubyte = None /\ parsed = None
    /\ region = None /\ intact = None /\ hit = None /\ strict = None /\ league = None
    /\ image = None /\ save = None /\ data = None /\ save2 = None /\ data2 = None
    /\ inputs = None /\ primary = None

AddPair(value, bits) ==
    /\ pc = "pairs"
    /\ Len(pairs) < MaxFields
    /\ value < 2 ^ bits
    /\ pairs' = Append(pairs, <<value, bits>>)
    /\ UNCHANGED <<pc, packed, fields, sumVars, unlockVars, leagueVars, saveVars, mergeVars>>

DoPack ==
    /\ pc = "pairs"
    /\ packed' = pack(pairs)
    /\ pc' = "packed"
    /\ UNCHANGED <<pairs, fields, sumVars, unlockVars, leagueVars, saveVars, mergeVars>>

DoUnpack ==
    /\ pc = "packed"
    /\ fields' = unpack(packed, [k \in 1..Len(pairs) |-> pairs[k][2]])
    /\ pc' = "unpacked"
    /\ UNCHANGED <<pairs, packed, sumVars, unlockVars, leagueVars, saveVars, mergeVars>>

PackNext ==
    \/ \E bits \in PackWidths : \E value \in PackValues : AddPair(value, bits)
    \/ DoPack
    \/ DoUnpack

PackSpec == PackInit /\ [][PackNext]_vars

PackedValues == [k \in 1..Len(pairs) |-> pairs[k][1]]

\* A value is a decimal number whose digits, one per 4 bits, fit the width:
\* at most 1, 3, 9, 99 in 1, 2, 4, 8 bits.
FitsAsDecimal(value, bits) ==
    /\ value < 2 ^ bits
    /\ value < 10 ^ (IF bits < 4 THEN 1 ELSE bits \div 4)

AllFitAsDecimal == \A k \in 1..Len(pairs) : FitsAsDecimal(pairs[k][1], pairs[k][2])

RECURSIVE sum(_, _, _)
sum(bytes, lo, hi) ==
    IF lo > hi THEN 0
    ELSE IF lo = hi THEN bytes[lo]
    ELSE LET mid == (lo + hi) \div 2
         IN  sum(bytes, lo, mid) + sum(bytes, mid + 1, hi)

\* Checksum.from_data leaving the last byte out of the sum
Checksum_from_data_short(bytes) == sum(bytes, 1, Len(bytes) - 1)

\* Checksum.from_data
Checksum_from_data(bytes) == sum(bytes, 1, Len(bytes))

\* Checksum.to_data: int.to_bytes(CHECKSUM_SIZE, 'little') raises OverflowError
\* when the number does not fit.
Checksum_to_data(checksum) ==
    IF checksum >= 256 ^ CHECKSUM_SIZE
    THEN [raised |-> TRUE, bytes |-> <<>>]
    ELSE [raised |-> FALSE,
          bytes |-> [k \in 1..CHECKSUM_SIZE |-> (checksum \div (256 ^ (k - 1))) % 256]]

\* Checksum.parse: int.from_bytes(checksum, 'little')
RECURSIVE Checksum_parse(_)
Checksum_parse(bytes) ==
    IF bytes = <<>> THEN 0 ELSE Head(bytes) + 256 * Checksum_parse(Tail(bytes))

\* ------------------------------------------------------------------ Record
\* Record(): the blank record, 9'59"99, Blue Falcon, Grand Prix, hidden.
Record_default ==
    [minutes |-> 9, seconds |-> 59, cents |-> 99, car |-> 0, mode |-> 0, display |-> FALSE]

RECORD_BITS == <<8, 8, 4, 2, 1, 1>>

Record_from_data(bytes) ==
    LET record == unpack(bytes, RECORD_BITS)
    IN  IF record.raised THEN Record_default
        ELSE [cents   |-> record.values[1],
              seconds |-> record.values[2],
              minutes |-> record.values[3],
              car     |-> record.values[4],
              mode    |-> record.values[5],
              display |-> record.values[6] # 0]

\* Record.to_data with seconds and cents in each other's place
Record_to_data_swapped(record) ==
    pack(<< <<record.seconds, 8>>,
            <<record.cents, 8>>,
            <<record.minutes, 4>>,
            <<record.car, 2>>,
            <<record.mode, 1>>,
            <<IF record.display THEN 1 ELSE 0, 1>> >>)

Record_to_data(record) ==
    pack(<< <<record.cents, 8>>,
            <<record.seconds, 8>>,
            <<record.minutes, 4>>,
            <<record.car, 2>>,
            <<record.mode, 1>>,
            <<IF record.display THEN 1 ELSE 0, 1>> >>)

\* Record.time, a NamedTuple (minutes, seconds, cents)
Record_time(record) == <<record.minutes, record.seconds, record.cents>>

\* Time.__int__
Time_int(time) == 100 * (60 * time[1] + time[2]) + time[3]

\* tuple.__lt__ of two Times: the first differing item decides.
Time_lt(a, b) ==
    \/ a[1] < b[1]
    \/ a[1] = b[1] /\ a[2] < b[2]
    \/ a[1] = b[1] /\ a[2] = b[2] /\ a[3] < b[3]

\* Record.__lt__
Record_lt(self, other) == Time_lt(Record_time(self), Record_time(other))

\* ------------------------------------------------------------------ League
LEAGUE_INFO ==
    [name \in {"Knight", "Queen", "King"} |->
        CASE name = "Knight" ->
                <<"Mute City I", "Big Blue", "Sand Ocean", "Death Wind I", "Silence">>
          [] name = "Queen" ->
                <<"Mute City II", "Port Town I", "Red Canyon I", "White Land I",
                  "White Land II">>
          [] name = "King" ->
                <<"Mute City III", "Death Wind II", "Port Town II", "Red Canyon II",
                  "Fire Field">>]

\* b''.join(parts[lo - 1 : hi]), joined by halves to keep the evaluation shallow
RECURSIVE join(_, _, _)
join(parts, lo, hi) ==
    IF lo > hi THEN <<>>
    ELSE IF lo = hi THEN parts[lo]
    ELSE LET mid == (lo + hi) \div 2
         IN  join(parts, lo, mid) \o join(parts, mid + 1, hi)

\* League.from_data: the league decoded, whether the stored checksum differs from
\* the computed one, and whether BadData was raised for it.
League_from_data(bytes, name, raise_on_checksum) ==
    LET records == [k \in 1..(TRACKS * RECORDS) |->
                       Record_from_data(sliced(bytes, (k - 1) * RECORD_SIZE, RECORD_SIZE))]
        offset == TRACKS * RECORDS * RECORD_SIZE
        checksum == Checksum_parse(sliced(bytes, offset, CHECKSUM_SIZE))
        expected == Checksum_from_data(sliced(bytes, 0, offset))
    IN  [name     |-> name,
         records  |-> IF checksum # expected /\ raise_on_checksum THEN <<>> ELSE records,
         mismatch |-> checksum # expected,
         raised   |-> checksum # expected /\ raise_on_checksum]

\* League.to_data (the sum of 165 bytes always fits the 2 checksum bytes)
League_to_data(self) ==
    LET parts == [k \in 1..Len(self.records) |-> Record_to_data(self.records[k])]
        bytes == join(parts, 1, Len(parts))
    IN  bytes \o Checksum_to_data(Checksum_from_data(bytes)).bytes

\* League.tracks
League_tracks(self) ==
    IF self.name \in DOMAIN LEAGUE_INFO THEN LEAGUE_INFO[self.name]
    ELSE [k \in 1..TRACKS |-> <<"Track", k>>]

\* League.track_records: <<track name, race records, best lap>> of each track
League_track_records(self) ==
    LET tracks == League_tracks(self)
        records == chunked(self.records, Len(self.records) \div Len(tracks))
    IN  [k \in 1..Len(records) |->
            [track |-> tracks[k],
             races |-> SubSeq(records[k], 1, Len(records[k]) - 1),
             lap   |-> records[k][Len(records[k])]]]

\* -------------------------------------------------------------------- Save
\* Save._check_signature: TRUE when the signature is there (else a warning)
Save_check_signature(bytes, offset) == sliced(bytes, offset, SIGNATURE_SIZE) = SIGNATURE

\* Save._parse_unlocks without the check of the unused bits
Save_parse_unlocks_unchecked(bytes) ==
    LET bits == UNLOCKS_SIZE * 8
        flags == unpack(bytes, [k \in 1..bits |-> 1])
        halves == chunked(flags.values, bits \div 2)
    IN  IF halves[1] = halves[2]
        THEN [raised |-> FALSE, list |-> [k \in 1..LEAGUES |-> halves[1][k] # 0]]
        ELSE [raised |-> FALSE, list |-> <<>>]

\* Save._parse_unlocks reading the three flags most significant bit first
Save_parse_unlocks_msb(bytes) ==
    LET bits == UNLOCKS_SIZE * 8
        flags == unpack(bytes, [k \in 1..bits |-> 1])
        halves == chunked(flags.values, bits \div 2)
    IN  IF halves[1] = halves[2] /\ halves[1][LEAGUES + 1] = 0
        THEN [raised |-> FALSE,
              list |-> [k \in 1..LEAGUES |-> halves[1][LEAGUES + 1 - k] # 0]]
        ELSE [raised |-> FALSE, list |-> <<>>]

\* Save._parse_unlocks
Save_parse_unlocks(bytes) ==
    LET bits == UNLOCKS_SIZE * 8
        flags == unpack(bytes, [k \in 1..bits |-> 1])
        halves == chunked(flags.values, bits \div 2)
        unlocks == halves[1]
        mirror == halves[2]
        unused == {unlocks[k] : k \in (LEAGUES + 1)..Len(unlocks)}
    IN  IF flags.raised \/ Len(halves) # 2 THEN [raised |-> TRUE, list |-> <<>>]
        ELSE IF unlocks = mirror /\ unused = {0}
        THEN [raised |-> FALSE, list |-> [k \in 1..LEAGUES |-> unlocks[k] # 0]]
        ELSE [raised |-> FALSE, list |-> <<>>]

\* Save._pack_unlocks
Save_pack_unlocks(self) ==
    LET bits == (UNLOCKS_SIZE * 8) \div 2
        padded == self.unlocks \o [k \in 1..(bits - Len(self.unlocks)) |-> FALSE]
        half == SubSeq(padded, 1, bits)
        both == half \o half
    IN  pack([k \in 1..Len(both) |-> <<IF both[k] THEN 1 ELSE 0, 1>>])

\* Save.from_data taking the padding byte one byte early
Save_from_data_early(bytes) ==
    LET offset == SIGNATURE_SIZE + LEAGUES * LEAGUE_SIZE
        last == offset + UNLOCKS_SIZE + SIGNATURE_SIZE
    IN  [leagues |-> [k \in 1..LEAGUES |->
                        LET decoded == League_from_data(
                                sliced(bytes, SIGNATURE_SIZE + (k - 1) * LEAGUE_SIZE,
                                       LEAGUE_SIZE),
                                LEAGUE_NAMES[k], FALSE)
                        IN  [name |-> decoded.name, records |-> decoded.records]],
         unlocks |-> Save_parse_unlocks(sliced(bytes, offset, UNLOCKS_SIZE)).list,
         padding |-> IF Len(bytes) > last THEN sliced(bytes, last - 1, 1) ELSE <<>>]

\* Save.from_data (League.from_data is called without raise_on_checksum)
Save_from_data(bytes) ==
    LET leagues == [k \in 1..LEAGUES |->
                       LET decoded == League_from_data(
                               sliced(bytes, SIGNATURE_SIZE + (k - 1) * LEAGUE_SIZE,
                                      LEAGUE_SIZE),
                               LEAGUE_NAMES[k], FALSE)
                       IN  [name |-> decoded.name, records |-> decoded.records]]
        offset == SIGNATURE_SIZE + LEAGUES * LEAGUE_SIZE
        last == offset + UNLOCKS_SIZE + SIGNATURE_SIZE
    IN  [leagues |-> leagues,
         unlocks |-> Save_parse_unlocks(sliced(bytes, offset, UNLOCKS_SIZE)).list,
         padding |-> IF Len(bytes) > last THEN sliced(bytes, last, 1) ELSE <<>>]

\* Save.from_sram: the first DATA_SIZE bytes of the file are decoded
Save_from_sram(file) == Save_from_data(sliced(file, 0, DATA_SIZE))

\* bytes.ljust(width, fill)
ljust(bytes, width, fill) ==
    IF Len(bytes) >= width THEN bytes
    ELSE bytes \o [k \in 1..(width - Len(bytes)) |-> fill[1]]

\* Save.to_data
Save_to_data(self, padding) ==
    LET parts == [k \in 1..Len(self.leagues) |-> League_to_data(self.leagues[k])]
        bytes == SIGNATURE \o join(parts, 1, Len(parts)) \o Save_pack_unlocks(self)
                     \o SIGNATURE
        fill == IF padding # <<>> THEN padding
                ELSE IF self.padding # <<>> THEN self.padding
                ELSE PADDING
    IN  ljust(bytes, SRAM_SIZE, fill)

\* sorted(records): stable, by Record.__lt__ alone
RECURSIVE sorted_into(_, _)
sorted_into(done, rest) ==
    IF rest = <<>> THEN done
    ELSE LET x == Head(rest)
             \* x goes before the first record it is less than
             later == {k \in 1..Len(done) : Record_lt(x, done[k])}
             at == IF later = {} THEN Len(done) + 1
                   ELSE CHOOSE k \in later : \A j \in later : k <= j
         IN  sorted_into(SubSeq(done, 1, at - 1) \o <<x>> \o SubSeq(done, at, Len(done)),
                         Tail(rest))

sorted(records) == sorted_into(<<>>, records)

\* min(a, b) of two records: b only when b < a
Record_min(a, b) == IF Record_lt(b, a) THEN b ELSE a

\* zip(a, b) stops at the shorter one
ZipLen(a, b) == IF Len(a) < Len(b) THEN Len(a) ELSE Len(b)

\* The tracks merged without sorting the races of the two saves
Save_merge_league_unsorted(self_league, save_league) ==
    LET mine == League_track_records(self_league)
        theirs == League_track_records(save_league)
        merged == [k \in 1..ZipLen(mine, theirs) |->
                      SubSeq(mine[k].races \o theirs[k].races, 1, RECORDS - 1)
                          \o <<Record_min(mine[k].lap, theirs[k].lap)>>]
    IN  [name |-> self_league.name, records |-> join(merged, 1, Len(merged))]

\* The body of merge's loop over the tracks of two leagues of the same name.
Save_merge_league(self_league, save_league) ==
    LET mine == League_track_records(self_league)
        theirs == League_track_records(save_league)
        merged == [k \in 1..ZipLen(mine, theirs) |->
                      IF mine[k].track # theirs[k].track
                      THEN SubSeq(mine[k].races, 1, RECORDS - 1) \o <<mine[k].lap>>
                      ELSE SubSeq(sorted(mine[k].races \o theirs[k].races), 1, RECORDS - 1)
                               \o <<Record_min(mine[k].lap, theirs[k].lap)>>]
    IN  [name |-> self_league.name, records |-> join(merged, 1, Len(merged))]

\* One turn of merge's loop over the saves.
Save_merge_one(self, other) ==
    [leagues |-> [k \in 1..Len(self.leagues) |->
                     IF k > Len(other.leagues) \/ self.leagues[k].name # other.leagues[k].name
                     THEN self.leagues[k]
                     ELSE Save_merge_league(self.leagues[k], other.leagues[k])],
     unlocks |-> [k \in 1..ZipLen(self.unlocks, other.unlocks) |->
                     self.unlocks[k] \/ other.unlocks[k]],
     padding |-> self.padding]

\* Save.merge(*saves)
RECURSIVE Save_merge(_, _)
Save_merge(self, saves) ==
    IF saves = <<>> THEN self
    ELSE Save_merge(Save_merge_one(self, Head(saves)), Tail(saves))


\* ------------------------------------------------------ the checksum, by itself
MaxRun == 300
SumBytes == {0, 1, 127, 255}

\* A byte string: a first byte followed by a run of one byte value.
SumInit ==
    /\ pc = "data"
    /\ \E first \in SumBytes : \E b \in SumBytes : \E n \in 0..MaxRun :
           cdata = [k \in 1..n |-> IF k = 1 THEN first ELSE b]
    /\ csum = None /\ cbytes = None /\ cparsed = None
    /\ pairs = None /\ packed = None /\ fields = None
    /\ ubyte = None /\ parsed = None
    /\ region = None /\ intact = None /\ hit = None /\ strict = None /\ league = None
    /\ image = None /\ save = None /\ data = None /\ save2 = None /\ data2 = None
    /\ inputs = None /\ primary = None

SumData ==
    /\ pc = "data"
    /\ csum' = Checksum_from_data(cdata)
    /\ pc' = "summed"
    /\ UNCHANGED <<cdata, cbytes, cparsed, packVars, unlockVars, leagueVars, saveVars, mergeVars>>

EncodeSum ==
    /\ pc = "summed"
    /\ cbytes' = Checksum_to_data(csum)
    /\ pc' = "encoded"
    /\ UNCHANGED <<cdata, csum, cparsed, packVars, unlockVars, leagueVars, saveVars, mergeVars>>

ParseSum ==
    /\ pc = "encoded"
    /\ ~cbytes.raised
    /\ cparsed' = Checksum_parse(cbytes.bytes)
    /\ pc' = "summed and parsed"
    /\ UNCHANGED <<cdata, csum, cbytes, packVars, unlockVars, leagueVars, saveVars, mergeVars>>

SumNext ==
    \/ SumData
    \/ EncodeSum
    \/ ParseSum

SumSpec == SumInit /\ [][SumNext]_vars

\* The sum of the byte values of cdata, by a formula of its own.
ByteTotal ==
    LET Count(b) == Cardinality({k \in 1..Len(cdata) : cdata[k] = b})
        used == {cdata[k] : k \in 1..Len(cdata)}
        RECURSIVE total(_)
        total(bs) == IF bs = {} THEN 0
                     ELSE LET b == CHOOSE x \in bs : TRUE
                          IN  b * Count(b) + total(bs \ {b})
    IN  total(used)

\* C7: Checksum.from_data(b) is the sum of the byte values modulo 65536, its
\* to_data() is the 2-byte little-endian encoding of it, and parsing that
\* encoding gives the checksum back, for any byte string b.
C7_ChecksumStability ==
    /\ pc \in {"summed", "encoded", "summed and parsed"} =>
           csum = ByteTotal % 65536
    /\ pc \in {"encoded", "summed and parsed"} =>
           /\ ~cbytes.raised
           /\ cbytes.bytes = <<csum % 256, csum \div 256>>
    /\ pc = "summed and parsed" => cparsed = csum

\* ------------------------------------------------ the unlock byte, by itself
UnlockInit ==
    /\ pc = "byte"
    /\ ubyte \in Byte
    /\ parsed = None
    /\ pairs = None /\ packed = None /\ fields = None
    /\ cdata = None /\ csum = None /\ cbytes = None /\ cparsed = None
    /\ region = None /\ intact = None /\ hit = None /\ strict = None /\ league = None
    /\ image = None /\ save = None /\ data = None /\ save2 = None /\ data2 = None
    /\ inputs = None /\ primary = None

ParseUnlocks ==
    /\ pc = "byte"
    /\ parsed' = Save_parse_unlocks(<<ubyte>>)
    /\ pc' = "parsed"
    /\ UNCHANGED <<ubyte, packVars, sumVars, leagueVars, saveVars, mergeVars>>

\* A Save holding the parsed list packs it again.
PackUnlocks ==
    /\ pc = "parsed"
    /\ ~parsed.raised
    /\ packed' = Save_pack_unlocks([leagues |-> <<>>, unlocks |-> parsed.list,
                                    padding |-> <<>>])
    /\ pc' = "repacked"
    /\ UNCHANGED <<pairs, fields, unlockVars, sumVars, leagueVars, saveVars, mergeVars>>

UnlockNext ==
    \/ ParseUnlocks
    \/ PackUnlocks

UnlockSpec == UnlockInit /\ [][UnlockNext]_vars

\* Bit k of the unlock byte, bit 0 the least significant.
UnlockBit(k) == (ubyte \div (2 ^ k)) % 2

\* Bits 4-6 repeat bits 0-2, and bits 3 and 7 are zero.
UnlockByteValid ==
    /\ \A k \in 0..2 : UnlockBit(k + 4) = UnlockBit(k)
    /\ UnlockBit(3) = 0
    /\ UnlockBit(7) = 0

\* C8 as stated: byte 0b00110011 decodes to [false, true, true] for
\* [Knight, Queen, King] and byte 0b01010011 to the empty list.
C8_FlagsAsWritten ==
    pc = "parsed" =>
        /\ ubyte = 51 => parsed.list = <<FALSE, TRUE, TRUE>>
        /\ ubyte = 83 => parsed.list = <<>>

\* C8 amended: a valid unlock byte decodes, for [Knight, Queen, King], to
\* [bit 0, bit 1, bit 2], least significant bit first, so byte 0b00110011
\* decodes to [true, true, false]; byte 0b01010011 decodes to the empty list.
C8_FlagsLowBitFirst ==
    pc = "parsed" =>
        /\ UnlockByteValid => parsed.list = [k \in 1..LEAGUES |-> UnlockBit(k - 1) = 1]
        /\ ubyte = 51 => parsed.list = <<TRUE, TRUE, FALSE>>
        /\ ubyte = 83 => parsed.list = <<>>

C8_Witness ==
    /\ pc = "parsed"
    /\ ubyte = 51
    /\ UnlockByteValid
    /\ parsed.list = <<TRUE, TRUE, FALSE>>

\* C10: for each of the 256 unlock bytes Save._parse_unlocks does not fail; it
\* returns three booleans exactly when bits 4-6 equal bits 0-2 and bits 3 and 7
\* are zero, and the empty list for every other byte.
C10_UnlockRedundancy ==
    pc = "parsed" =>
        /\ ~parsed.raised
        /\ parsed.list \in [1..LEAGUES -> BOOLEAN] <=> UnlockByteValid
        /\ ~UnlockByteValid => parsed.list = <<>>

C10_Witness ==
    /\ pc = "parsed"
    /\ ubyte = 136
    /\ ~UnlockByteValid
    /\ parsed.list = <<>>

\* ------------------------------------------------------------ input images
\* Stored 3-byte records an image is filled with: the blank record, shown and
\* hidden times, equal times of different cars, a time of 99 seconds, a practice
\* lap, and bytes that are no decimal digits (an erased cell, a bad nibble).
StoredRecords ==
    << <<9, 89, 153>>,     \* 09 59 99: 9'59"99 hidden, the blank record
       <<129, 0, 0>>,      \* 81 00 00: 1'00"00 shown
       <<128, 89, 80>>,    \* 80 59 50: 0'59"50 shown
       <<128, 153, 0>>,    \* 80 99 00: 0'99"00 shown
       <<145, 0, 0>>,      \* 91 00 00: 1'00"00 shown, Wild Goose
       <<138, 0, 0>>,      \* 8A 00 00: minutes nibble A
       <<194, 48, 69>>,    \* C2 30 45: 2'30"45 shown, practice
       <<0, 0, 0>>,        \* 00 00 00: 0'00"00 hidden
       <<255, 255, 255>> >>  \* FF FF FF: erased

\* The record table of a league: cell k (from 0) holds the stored record
\* number (start + stride * k) mod 9.
Table(stride, start) ==
    LET cells == [k \in 1..(TRACKS * RECORDS) |->
                     StoredRecords[((start + stride * (k - 1)) % Len(StoredRecords)) + 1]]
    IN  join(cells, 1, Len(cells))

\* A table followed by its checksum (or by a wrong one).
Region(stride, start, sound) ==
    LET table == Table(stride, start)
        total == Checksum_from_data(table)
        stored == IF sound THEN total ELSE (total + 1) % (256 ^ CHECKSUM_SIZE)
    IN  table \o Checksum_to_data(stored).bytes

\* ------------------------------------------------ League.from_data, by itself
Tables == {<<0, 0>>, <<0, 7>>, <<1, 0>>, <<2, 3>>, <<4, 1>>}
Changes == {1, 16, 128, 255}

LeagueInit ==
    /\ pc = "region"
    /\ \E t \in Tables : region = Region(t[1], t[2], TRUE)
    /\ intact = None /\ hit = None /\ strict = None /\ league = None
    /\ pairs = None /\ packed = None /\ fields = None
    /\ cdata = None /\ csum = None /\ cbytes = None /\ cparsed = None
    /\ ubyte = None /\ parsed = None
    /\ image = None /\ save = None /\ data = None /\ save2 = None /\ data2 = None
    /\ inputs = None /\ primary = None

\* One record byte of the region gets another value.
Corrupt(offset, change) ==
    /\ pc = "region"
    /\ intact' = League_from_data(region, "Knight", FALSE).records
    /\ region' = [region EXCEPT ![offset + 1] = (@ + change) % 256]
    /\ hit' = offset
    /\ pc' = "corrupted"
    /\ UNCHANGED <<strict, league, packVars, sumVars, unlockVars, saveVars, mergeVars>>

DecodeRegion(raise_on_checksum) ==
    /\ pc = "region"
    /\ strict' = raise_on_checksum
    /\ league' = League_from_data(region, "Knight", raise_on_checksum)
    /\ pc' = "region decoded"
    /\ UNCHANGED <<region, intact, hit, packVars, sumVars, unlockVars, saveVars, mergeVars>>

DecodeCorrupted(raise_on_checksum) ==
    /\ pc = "corrupted"
    /\ strict' = raise_on_checksum
    /\ league' = League_from_data(region, "Knight", raise_on_checksum)
    /\ pc' = "corrupted decoded"
    /\ UNCHANGED <<region, intact, hit, packVars, sumVars, unlockVars, saveVars, mergeVars>>

LeagueNext ==
    \/ \E offset \in 0..(TRACKS * RECORDS * RECORD_SIZE - 1) : \E change \in Changes :
           Corrupt(offset, change)
    \/ \E raise_on_checksum \in BOOLEAN : DecodeRegion(raise_on_checksum)
    \/ \E raise_on_checksum \in BOOLEAN : DecodeCorrupted(raise_on_checksum)

LeagueSpec == LeagueInit /\ [][LeagueNext]_vars

\* C9: after one record byte of a league region with a matching checksum is
\* changed, League.from_data finds a checksum mismatch (BadData when
\* raise_on_checksum, a warning otherwise), and by default the 54 records that
\* do not hold the changed byte decode as they did before.
C9_CorruptionDetectedAndContained ==
    pc = "corrupted decoded" =>
        /\ league.mismatch
        /\ strict => league.raised
        /\ ~strict =>
               /\ ~league.raised
               /\ Len(league.records) = TRACKS * RECORDS
               /\ \A k \in 1..(TRACKS * RECORDS) :
                      k # (hit \div RECORD_SIZE) + 1 => league.records[k] = intact[k]

C9_Witness ==
    /\ pc = "corrupted decoded"
    /\ ~strict
    /\ league.mismatch
    /\ hit = 4
    /\ league.records[2] # intact[2]
    /\ league.records[1] = intact[1]
    /\ league.records[3] = intact[3]

\* ------------------------------------------- the save image: decode and encode
\* An image: header, three league regions, unlock byte, footer, and what
\* follows them.  damage names the part written wrongly, if any.
Image(stride, start, unlock, rest, damage) ==
    (IF damage = "signatures" THEN <<70, 90, 69, 82, 48>> ELSE SIGNATURE)
    \o Region(stride, start, damage # "checksum")
    \o Region(stride, start + 1, TRUE)
    \o Region(stride, start + 2, TRUE)
    \o <<unlock>>
    \o (IF damage = "signatures" THEN <<0, 0, 0, 0, 0>> ELSE SIGNATURE)
    \o rest

ImageTables == {<<0, 0>>, <<1, 0>>, <<2, 3>>}
UnlockBytes == {0, 17, 51, 102, 83, 136}
Damages == {"none", "signatures", "checksum"}
\* What follows the 512 bytes: nothing, one byte, the padding of a whole SRAM,
\* a few bytes of another file.
Rests ==
    { <<>>, <<0>>,
      [k \in 1..(SRAM_SIZE - DATA_SIZE) |-> 255],
      <<170, 1, 2>> }
PaddingArgs == {<<>>, <<0>>}

Init ==
    /\ pc = "image"
    /\ \E t \in ImageTables : \E unlock \in UnlockBytes : \E rest \in Rests :
       \E damage \in Damages :
           image = Image(t[1], t[2], unlock, rest, damage)
    /\ save = None /\ data = None /\ save2 = None /\ data2 = None
    /\ pairs = None /\ packed = None /\ fields = None
    /\ cdata = None /\ csum = None /\ cbytes = None /\ cparsed = None
    /\ ubyte = None /\ parsed = None
    /\ region = None /\ intact = None /\ hit = None /\ strict = None /\ league = None
    /\ inputs = None /\ primary = None

\* cli: save = sram.Save.from_sram(args.infile)
FromSram ==
    /\ pc = "image"
    /\ save' = Save_from_sram(image)
    /\ pc' = "decoded"
    /\ UNCHANGED <<image, data, save2, data2, packVars, sumVars, unlockVars, leagueVars,
                   mergeVars>>

\* Save.from_data on the whole image
FromData ==
    /\ pc = "image"
    /\ save' = Save_from_data(image)
    /\ pc' = "decoded"
    /\ UNCHANGED <<image, data, save2, data2, packVars, sumVars, unlockVars, leagueVars,
                   mergeVars>>

\* data := save.to_data()
ToData(padding) ==
    /\ pc = "decoded"
    /\ data' = Save_to_data(save, padding)
    /\ pc' = "encoded"
    /\ UNCHANGED <<image, save, save2, data2, packVars, sumVars, unlockVars, leagueVars,
                   mergeVars>>

\* save.from_data(data)
FromDataAgain ==
    /\ pc = "encoded"
    /\ save2' = Save_from_data(data)
    /\ pc' = "decoded again"
    /\ UNCHANGED <<image, save, data, data2, packVars, sumVars, unlockVars, leagueVars,
                   mergeVars>>

\* save.from_data(data).to_data()
ToDataAgain ==
    /\ pc = "decoded again"
    /\ data2' = Save_to_data(save2, <<>>)
    /\ pc' = "encoded again"
    /\ UNCHANGED <<image, save, data, save2, packVars, sumVars, unlockVars, leagueVars,
                   mergeVars>>

Next ==
    \/ FromSram
    \/ FromData
    \/ \E padding \in PaddingArgs : ToData(padding)
    \/ FromDataAgain
    \/ ToDataAgain

Spec == Init /\ [][Next]_vars

\* The same league names and the same records in the same slots; a record is
\* its minutes, seconds, cents, car, mode and display.
SameLeagues(a, b) ==
    /\ Len(a.leagues) = Len(b.leagues)
    /\ \A k \in 1..Len(a.leagues) :
           /\ a.leagues[k].name = b.leagues[k].name
           /\ a.leagues[k].records = b.leagues[k].records

\* C1 as stated: decoding the encoding of a decoded Save gives the same league
\* names, the same 55 records per league in order, and the same unlocks list.
C1_RoundTrip ==
    pc \in {"decoded again", "encoded again"} =>
        /\ SameLeagues(save2, save)
        /\ save2.unlocks = save.unlocks

\* C1 amended: the league names and the 55 records per league come back the
\* same; the unlocks list comes back the same when it has its three flags,
\* and an empty unlocks list (an invalid unlock byte) comes back as three
\* false flags.
C1_RoundTripButEmptyUnlocks ==
    pc \in {"decoded again", "encoded again"} =>
        /\ SameLeagues(save2, save)
        /\ \A k \in 1..LEAGUES : Len(save.leagues[k].records) = TRACKS * RECORDS
        /\ Len(save.unlocks) = LEAGUES => save2.unlocks = save.unlocks
        /\ save.unlocks = <<>> => save2.unlocks = <<FALSE, FALSE, FALSE>>
        /\ Len(save.unlocks) \in {0, LEAGUES}

C1_Witness ==
    /\ pc = "decoded again"
    /\ save.unlocks = <<FALSE, TRUE, TRUE>>
    /\ save2.unlocks = <<FALSE, TRUE, TRUE>>
    /\ save.leagues[1].records[3] =
           [minutes |-> 0, seconds |-> 59, cents |-> 50, car |-> 0, mode |-> 0,
            display |-> TRUE]
    /\ save2.leagues[1].records[3] = save.leagues[1].records[3]
    /\ save.leagues[1].records[6] = Record_default
    /\ save.leagues[1].records[7].mode = 1

\* C2: the encoding of a decoded Save is a fixpoint of decode-then-encode:
\* Save.from_data(data).to_data() equals data = s.to_data() in all its 2048
\* bytes.
C2_EncodeFixpoint ==
    pc = "encoded again" => (data2 = data /\ Len(data) = SRAM_SIZE)

C2_Witness ==
    /\ pc = "encoded again"
    /\ save.unlocks = <<>>
    /\ save.padding = <<0>>
    /\ data2 = data
    /\ data[DATA_SIZE + 1] = 0
    /\ data[SRAM_SIZE] = 0

\* ------------------------------------------------------------------- merge
MaxSaves == 2

\* The save files at hand: the record table and the unlock byte of each.
SaveFiles ==
    << [table |-> <<0, 0>>, unlock |-> 0],      \* a blank save, nothing unlocked
       [table |-> <<1, 0>>, unlock |-> 17],     \* Knight unlocked
       [table |-> <<2, 3>>, unlock |-> 102],    \* Queen and King unlocked
       [table |-> <<4, 1>>, unlock |-> 83],     \* an invalid unlock byte
       [table |-> <<1, 4>>, unlock |-> 68],     \* King unlocked
       [table |-> <<0, 1>>, unlock |-> 51] >>   \* Knight and Queen unlocked

FileImage(f) ==
    Image(SaveFiles[f].table[1], SaveFiles[f].table[2], SaveFiles[f].unlock,
          [k \in 1..(SRAM_SIZE - DATA_SIZE) |-> 255], "none")

\* Each file as Save.from_sram decodes it.
Loaded == [f \in 1..Len(SaveFiles) |-> Save_from_sram(FileImage(f))]

MergeInit ==
    /\ pc = "files"
    /\ inputs = <<>>
    /\ primary = None
    /\ pairs = None /\ packed = None /\ fields = None
    /\ cdata = None /\ csum = None /\ cbytes = None /\ cparsed = None
    /\ ubyte = None /\ parsed = None
    /\ region = None /\ intact = None /\ hit = None /\ strict = None /\ league = None
    /\ image = None /\ save = None /\ data = None /\ save2 = None /\ data2 = None

\* One more save file is decoded: the first is the primary, the others are
\* the saves merged into it.
Open(f) ==
    /\ pc = "files"
    /\ Len(inputs) < MaxSaves + 1
    /\ inputs' = Append(inputs, f)
    /\ UNCHANGED <<pc, primary, packVars, sumVars, unlockVars, leagueVars, saveVars>>

\* primary.merge(*saves)
Merge ==
    /\ pc = "files"
    /\ Len(inputs) >= 1
    /\ primary' = Save_merge(Loaded[inputs[1]],
                             [k \in 1..(Len(inputs) - 1) |-> Loaded[inputs[k + 1]]])
    /\ pc' = "merged"
    /\ UNCHANGED <<inputs, packVars, sumVars, unlockVars, leagueVars, saveVars>>

MergeNext ==
    \/ \E f \in 1..Len(SaveFiles) : Open(f)
    \/ Merge

MergeSpec == MergeInit /\ [][MergeNext]_vars

\* The 10 race records and the best lap of track t (1..5) of league l of a save.
Races(s, l, t) ==
    SubSeq(s.leagues[l].records, (t - 1) * RECORDS + 1, (t - 1) * RECORDS + RECORDS - 1)
Lap(s, l, t) == s.leagues[l].records[t * RECORDS]

\* The primary as it was before the merge.
Before == Loaded[inputs[1]]

\* merge was given one save, an identical copy of the primary.
MergedWithCopy == pc = "merged" /\ Len(inputs) = 2 /\ inputs[2] = inputs[1]

\* C3 as stated: merging a save with an identical copy of itself leaves every
\* league's records in their slots and the unlocks list as they were.
C3_MergeIdempotent ==
    MergedWithCopy =>
        /\ SameLeagues(primary, Before)
        /\ primary.unlocks = Before.unlocks

\* How many of the records have a time before (not after) that of r, times
\* compared as (minutes, seconds, cents).
Earlier(records, r) ==
    Cardinality({j \in 1..Len(records) : Time_lt(Record_time(records[j]), Record_time(r))})
NotLater(records, r) ==
    Cardinality({j \in 1..Len(records) : ~Time_lt(Record_time(r), Record_time(records[j]))})

SameTimes(records) ==
    \A j \in 1..Len(records) : Record_time(records[j]) = Record_time(records[1])

\* C3 amended: merging a save with an identical copy of itself leaves the
\* league names, every best lap and the unlocks list as they were; the race
\* slots of a track come out as the track's race records taken twice, sorted
\* by time and cut to 10 (its five best times, each twice), so they are as
\* they were exactly when the track's ten race records all have the same time.
C3_MergeWithCopy ==
    MergedWithCopy =>
        /\ primary.unlocks = Before.unlocks
        /\ \A l \in 1..LEAGUES :
               /\ primary.leagues[l].name = Before.leagues[l].name
               /\ Len(primary.leagues[l].records) = TRACKS * RECORDS
               /\ \A t \in 1..TRACKS :
                      LET old == Races(Before, l, t)
                          new == Races(primary, l, t)
                      IN  /\ Lap(primary, l, t) = Lap(Before, l, t)
                          /\ new = old <=> SameTimes(old)
                          /\ \A k \in 1..(RECORDS - 1) :
                                 /\ \E j \in 1..(RECORDS - 1) : new[k] = old[j]
                                 /\ 2 * Earlier(old, new[k]) < k
                                 /\ k <= 2 * NotLater(old, new[k])

C3_Witness ==
    /\ MergedWithCopy
    /\ inputs[1] = 2
    /\ Races(primary, 1, 1) # Races(Before, 1, 1)
    /\ Record_time(Races(primary, 1, 1)[1]) = Record_time(Races(primary, 1, 1)[2])
    /\ Lap(primary, 1, 1) = Lap(Before, 1, 1)
    /\ primary.unlocks = <<TRUE, FALSE, FALSE>>

\* The 20 race records of track t of league l in the primary and in the one
\* save merged into it.
Pool(l, t) == Races(Before, l, t) \o Races(Loaded[inputs[2]], l, t)

\* minutes*6000 + seconds*100 + centiseconds
TotalCents(r) == r.minutes * 6000 + r.seconds * 100 + r.cents

\* C4: after primary.merge(secondary), leagues of the same name, each track's
\* 10 race slots hold the 10 records with the lowest times among the 20 race
\* records of both saves for that track, in ascending order, times ordered by
\* the total minutes*6000 + seconds*100 + centiseconds.
C4_BestTenByTotalCents ==
    (pc = "merged" /\ Len(inputs) = 2) =>
        \A l \in 1..LEAGUES : \A t \in 1..TRACKS :
            LET pool == Pool(l, t)
                new == Races(primary, l, t)
                Below(r) == Cardinality({j \in 1..Len(pool) :
                                            TotalCents(pool[j]) < TotalCents(r)})
                UpTo(r) == Cardinality({j \in 1..Len(pool) :
                                           TotalCents(pool[j]) <= TotalCents(r)})
            IN  \A k \in 1..(RECORDS - 1) :
                    /\ \E j \in 1..Len(pool) : new[k] = pool[j]
                    /\ Below(new[k]) < k
                    /\ k <= UpTo(new[k])

\* League l is unlocked in a save.
Unlocked(s, l) == l <= Len(s.unlocks) /\ s.unlocks[l]

\* C5: after primary.merge(s1, ..., sn) each league's unlock flag of the
\* primary is true if the league was unlocked in the primary before the merge
\* or in any of the saves: an unlock of any input is not lost.
C5_UnlocksAreOred ==
    pc = "merged" =>
        \A l \in 1..LEAGUES :
            (\E i \in 1..Len(inputs) : Unlocked(Loaded[inputs[i]], l))
                => Unlocked(primary, l)

====
